---- MODULE Spec2Model ----
(***************************************************************************)
(* Model of mover/tool.py: the CodexLocalModelIntegrator (locate, resolve, *)
(* install bridge module, inject bootstrap, write manifest), the CLI       *)
(* main(), and the request translation of the generated bridge server.     *)
(*                                                                         *)
(* Texts are sequences of tokens.  A token is a piece of text that the     *)
(* program only ever tests as a whole (a line break, a blank, a quote, the *)
(* keyword "import ", the marker symbol, ...), so that splitlines, strip,  *)
(* startswith, "in" and join are computed on tokens as the code computes   *)
(* them on characters.                                                     *)
(***************************************************************************)
EXTENDS Integers, Sequences, FiniteSets, TLC

VARIABLES
    disk,         \* candidate root path -> "none" | "dir" | "file"
    treeRoot,     \* the root path under which the package tree below lives
    pkgs,         \* package-dir candidate -> "none" | "dir" | "package"
    fs,           \* file path -> [exists, data] for the files of the tree
    writable,     \* FALSE: every write to the tree raises PermissionError
    fs0,          \* the files as they were before the integrator first ran
    last,         \* the call that completed last ("none" before any)
    cfg,          \* its CodexLocalModelIntegrator dataclass fields
    environ,      \* os.environ["CODEX_INSTALL_DIR"] during it (NoPath: unset)
    root,         \* run(): local root
    package_dir,  \* run(): local package_dir
    entrypoint,   \* run(): local entrypoint / inject_bootstrap's argument
    stages,       \* run(): the calls that returned, in order
    exc,          \* the exception the call raised ("none" if it returned)
    exitCode,     \* value returned by main() (-1 for a call that is not main)
    request,      \* bridge: the JSON body of the last POST
    rendered,     \* bridge: what do_POST computed from it up to _run_olama
    os_environ,   \* bridge process: os.environ (the variables the module reads)
    module,       \* bridge module globals: HOST, PORT, _API_BASE, _SERVER_THREAD, _SERVER
    servers,      \* ThreadingHTTPServer objects created so far: address and state
    portTaken,    \* TRUE: another process holds the address (HOST, PORT)
    caller,       \* thread -> its call of ensure_local_model_server
    conn,         \* inbound connection -> the POST sent on it and its handling
    listener      \* the serve_forever loop: what it is doing, and ghost order

vars == <<disk, treeRoot, pkgs, fs, writable, fs0, last, cfg, environ, root,
          package_dir, entrypoint, stages, exc, exitCode, request, rendered,
          os_environ, module, servers, portTaken, caller, conn, listener>>

-----------------------------------------------------------------------------
(* Tokens *)

NL == "\n"
SP == " "
HASH == "#"
DQ == "\""
SQ == "'"
TQ == "\"\"\""
IMPORT == "import "
FROM == "from "
CODE == "def main():"
PROSE == "Usage notes."
MARKER == "ensure_local_model_server"
MAINGUARD == "__name__ == \"__main__\""
BADBYTE == "\\xff"

\* First character of a token, for str.startswith on a stripped line.
FirstChar(tok) ==
    CASE tok = HASH -> "#"
      [] tok \in {DQ, TQ} -> "\""
      [] tok = SQ -> "'"
      [] OTHER -> tok

IsSpace(tok) == tok \in {SP, "\t", NL}

-----------------------------------------------------------------------------
(* str.splitlines, str.strip, "\n".join *)

RECURSIVE SplitFrom(_, _)
SplitFrom(t, cur) ==
    IF t = <<>> THEN (IF cur = <<>> THEN <<>> ELSE <<cur>>)
    ELSE IF Head(t) = NL THEN <<cur>> \o SplitFrom(Tail(t), <<>>)
    ELSE SplitFrom(Tail(t), Append(cur, Head(t)))

splitlines(t) == SplitFrom(t, <<>>)

RECURSIVE lstrip(_)
lstrip(line) ==
    IF line # <<>> /\ IsSpace(Head(line)) THEN lstrip(Tail(line)) ELSE line

RECURSIVE rstrip(_)
rstrip(line) ==
    IF line # <<>> /\ IsSpace(line[Len(line)])
    THEN rstrip(SubSeq(line, 1, Len(line) - 1)) ELSE line

strip(line) == rstrip(lstrip(line))

RECURSIVE join(_)
join(lines) ==
    IF lines = <<>> THEN <<>>
    ELSE IF Len(lines) = 1 THEN lines[1]
    ELSE lines[1] \o <<NL>> \o join(Tail(lines))

Contains(t, tok) == \E i \in 1..Len(t) : t[i] = tok

-----------------------------------------------------------------------------
(* inject_bootstrap: the injected block and the insertion point *)

injection(package_name) ==
    << HASH, " >>> CODEx local model integration (auto-generated)", NL,
       "try:", NL,
       SP, SP, SP, SP, FROM, ".local_model_server import ", MARKER,
           "  # type: ignore", NL,
       "except Exception:  # pragma: no cover - fallback for script entrypoints", NL,
       SP, SP, SP, SP, FROM, package_name, ".local_model_server import ", MARKER,
           "  # type: ignore", NL,
       MARKER, "()", NL,
       HASH, " <<< CODEx local model integration (auto-generated)" >>

\* The for/else loop of inject_bootstrap; index and insert_at are 0-based.
RECURSIVE ScanLines(_, _, _)
ScanLines(lines, index, insert_at) ==
    IF index >= Len(lines) THEN Len(lines)
    ELSE LET stripped == strip(lines[index + 1]) IN
         IF stripped = <<>> \/ FirstChar(stripped[1]) \in {"#", "\"", "'"}
         THEN ScanLines(lines, index + 1, insert_at)
         ELSE IF stripped[1] = IMPORT \/ stripped[1] = FROM
         THEN ScanLines(lines, index + 1, index + 1)
         ELSE index

InsertAt(lines) == ScanLines(lines, 0, 0)

NewText(t, package_name) ==
    LET lines == splitlines(t)
        insert_at == InsertAt(lines)
        new_lines == SubSeq(lines, 1, insert_at)
                     \o << injection(package_name), <<>> >>
                     \o SubSeq(lines, insert_at + 1, Len(lines))
    IN join(new_lines)

-----------------------------------------------------------------------------
(* Paths and files *)

NoPath == "<None>"

\* `--codex-path` value, CODEX_INSTALL_DIR value and DEFAULT_INSTALL_LOCATIONS.
ExplicitPath == "/srv/codex-app"
EnvPath == "/env/codex"
DEFAULT_INSTALL_LOCATIONS ==
    << "~/.codex",
       "~/Library/Application Support/Codex",
       "~/Applications/Codex.app/Contents/Resources/app",
       "~/codex",
       "/usr/local/lib/codex",
       "/opt/codex" >>

DefaultPaths == {DEFAULT_INSTALL_LOCATIONS[i] : i \in 1..Len(DEFAULT_INSTALL_LOCATIONS)}
RootCandidates == {ExplicitPath, EnvPath} \cup DefaultPaths
PathKinds == {"none", "dir", "file"}

\* Path.exists()
Exists(d, p) == d[p] # "none"

\* Candidate package directories in the order _candidate_package_dirs yields
\* them; "codex_cli" stands for a top-level child whose name starts with codex.
PackageDirOrder == <<"codex", "src/codex", "lib/codex", "codex_cli">>
PackageDirs == {PackageDirOrder[i] : i \in 1..Len(PackageDirOrder)}

\* package_dir.name
Name(dir) ==
    CASE dir \in {"codex", "src/codex", "lib/codex"} -> "codex"
      [] OTHER -> dir

Suffixes == {".bak", ".orig"}
EntryNames == {"__main__.py", "cli.py", "main.py", "app.py", "tool.py",
               "local_model_server.py"}
\* A file of the package directory whose name does not end in ".py".
ScriptNames == {"codex-launcher"}
DirNames == EntryNames \cup ScriptNames
ServerName == "local_model_server.py"
ManifestName == "codex_local_model_integration.json"

\* A file path of the tree: <<file name, backup suffix appended to it>>.
File(name) == <<name, "">>
\* path.with_suffix(path.suffix + backup_suffix)
BackupOf(path, backup_suffix) == <<path[1], backup_suffix>>

Paths == {File(n) : n \in DirNames \cup {ManifestName}}
         \cup {<<n, s>> : n \in EntryNames, s \in Suffixes}

NoFile == [exists |-> FALSE, data |-> <<>>]
Data(d) == [exists |-> TRUE, data |-> d]

-----------------------------------------------------------------------------
(* SERVER_MODULE_TEMPLATE and str.format *)

\* The template as str.format sees it: literal text and replacement fields, in
\* the order of the source.  Every brace group of the template is a field to
\* str.format, named here by the key str.format looks up for it: the three
\* config fields, and then the braces of the bridge's own f-strings and dict
\* literals (the first of each kind is listed, long literal text is cut).
Lit(s) == <<"lit", s>>
Field(key) == <<"field", key>>

SERVER_MODULE_TEMPLATE ==
    << Lit("HOST = os.environ.get(CODEX_LOCAL_SERVER_HOST, "), Field("host"),
       Lit("PORT = int(os.environ.get(CODEX_LOCAL_SERVER_PORT, "), Field("port"),
       Lit("DEFAULT_MODEL = os.environ.get(CODEX_LOCAL_MODEL, "), Field("model"),
       Lit("_API_BASE = http://"), Field("host"), Lit(":"), Field("port"), Lit("/v1"),
       Lit("def _normalise_prompt(messages, prompt): rendered.append(["),
       Field("role"), Lit("] "), Field("content"),
       Lit("def _send_error(self, message, status): payload = "), Field("\"error\""),
       Lit("def do_POST(self): response_id = local-codex-"), Field("uuid"),
       Lit("def _start_server(): raise RuntimeError(Port "), Field("PORT"),
       Lit(" on "), Field("HOST"), Lit(" is already in use)"),
       Lit("def "), Lit(MARKER), Lit("(): _start_server()") >>

\* format(value, "") of a keyword argument: port is the int among them, the
\* others are strings.
Formatted(kwargs, key) == IF key = "port" THEN ToString(kwargs[key]) ELSE kwargs[key]

\* str.format(**kwargs): the segments are rendered left to right; the first
\* field whose key is no keyword argument raises KeyError.
RECURSIVE FormatFrom(_, _, _)
FormatFrom(template, kwargs, out) ==
    IF template = <<>> THEN [ok |-> TRUE, text |-> out]
    ELSE LET seg == Head(template) IN
         IF seg[1] = "lit" THEN FormatFrom(Tail(template), kwargs, Append(out, seg[2]))
         ELSE IF seg[2] \in DOMAIN kwargs
         THEN FormatFrom(Tail(template), kwargs, Append(out, Formatted(kwargs, seg[2])))
         ELSE [ok |-> FALSE, text |-> <<>>]

\* str.format on a template whose other brace groups are escaped: they are
\* literal text.
Format_BracesEscaped(template, kwargs) ==
    [ok |-> TRUE,
     text |-> [i \in 1..Len(template) |->
                 IF template[i][1] = "field" /\ template[i][2] \in DOMAIN kwargs
                 THEN Formatted(kwargs, template[i][2])
                 ELSE template[i][2]]]

Format(template, kwargs) == FormatFrom(template, kwargs, <<>>)

-----------------------------------------------------------------------------
(* CodexLocalModelIntegrator *)

NotFound == "<FileNotFoundError>"

RECURSIVE FirstDefault(_, _)
FirstDefault(d, i) ==
    IF i > Len(DEFAULT_INSTALL_LOCATIONS) THEN NotFound
    ELSE IF Exists(d, DEFAULT_INSTALL_LOCATIONS[i]) THEN DEFAULT_INSTALL_LOCATIONS[i]
    ELSE FirstDefault(d, i + 1)

\* locate_codex trying the environment before the explicit path.
locate_codex_EnvFirst(d, c, env_dir) ==
    IF env_dir # NoPath /\ Exists(d, env_dir) THEN env_dir
    ELSE IF c.codex_root # NoPath
    THEN IF Exists(d, c.codex_root) THEN c.codex_root ELSE NotFound
    ELSE FirstDefault(d, 1)

\* locate_codex: the root it returns, or NotFound when it raises.
locate_codex(d, c, env_dir) ==
    IF c.codex_root # NoPath
    THEN IF Exists(d, c.codex_root) THEN c.codex_root ELSE NotFound
    ELSE IF env_dir # NoPath /\ Exists(d, env_dir) THEN env_dir
    ELSE FirstDefault(d, 1)

RECURSIVE FirstPackage(_, _)
FirstPackage(pk, i) ==
    IF i > Len(PackageDirOrder) THEN NotFound
    ELSE IF pk[PackageDirOrder[i]] = "package" THEN PackageDirOrder[i]
    ELSE FirstPackage(pk, i + 1)

\* resolve_package_dir: the package directory, or the exception it raises.
\* Only treeRoot holds candidate directories; iterdir() of a root that is a
\* regular file raises NotADirectoryError.
resolve_package_dir(d, tree, pk, r) ==
    IF d[r] = "file" THEN "<NotADirectoryError>"
    ELSE IF r # tree THEN NotFound
    ELSE FirstPackage(pk, 1)

\* package_dir.glob(pattern) over the names of the directory; the pattern of
\* resolve_entrypoint is "*.py".
glob(names, pattern) ==
    IF pattern = "*.py" THEN {n \in names : n \notin ScriptNames} ELSE names

\* read_text(errors="ignore") then the substring test of resolve_entrypoint.
HasMainGuard(f) == f.exists /\ Contains(f.data, MAINGUARD)

\* resolve_entrypoint: the set of paths it can return (glob order is the
\* directory's order, so any matching file can come first); {} when it raises.
resolve_entrypoint(fsys) ==
    IF fsys[File("__main__.py")].exists THEN {File("__main__.py")}
    ELSE IF fsys[File("cli.py")].exists THEN {File("cli.py")}
    ELSE IF fsys[File("main.py")].exists THEN {File("main.py")}
    ELSE IF fsys[File("app.py")].exists THEN {File("app.py")}
    ELSE {File(n) : n \in {m \in glob(DirNames, "*.py") : HasMainGuard(fsys[File(m)])}}

\* The outcome of an operation on the tree: the files afterwards and the
\* exception raised ("none" when it returned).
Outcome(fsys, e) == [fs |-> fsys, exc |-> e]

\* shutil.copy2(src, dst)
copy2(fsys, w, src, dst) ==
    IF ~w THEN Outcome(fsys, "PermissionError")
    ELSE Outcome([fsys EXCEPT ![dst] = fsys[src]], "none")

\* path.write_text(content)
write_text(fsys, w, path, content) ==
    IF ~w THEN Outcome(fsys, "PermissionError")
    ELSE Outcome([fsys EXCEPT ![path] = Data(content)], "none")

\* _write_file without its dry-run test.
_write_file_Always(fsys, w, c, path, content) ==
    write_text(fsys, w, path, content)

_write_file(fsys, w, c, path, content) ==
    IF c.dry_run THEN Outcome(fsys, "none")
    ELSE write_text(fsys, w, path, content)

install_server_module(fsys, w, c) ==
    LET path == File(ServerName)
        backup == BackupOf(path, c.backup_suffix)
        backed == IF fsys[path].exists /\ ~c.dry_run /\ ~fsys[backup].exists
                  THEN copy2(fsys, w, path, backup)
                  ELSE Outcome(fsys, "none")
        module_text == Format(SERVER_MODULE_TEMPLATE,
                              [host |-> c.host, port |-> c.port, model |-> c.model])
    IN IF backed.exc # "none" THEN backed
       ELSE IF ~module_text.ok THEN Outcome(backed.fs, "KeyError")
       ELSE _write_file(backed.fs, w, c, path, module_text.text)

\* inject_bootstrap without its "already patched" test.
inject_bootstrap_NoMarkerTest(fsys, w, c, entry, package_name) ==
    IF ~fsys[entry].exists THEN Outcome(fsys, "FileNotFoundError")
    ELSE IF Contains(fsys[entry].data, BADBYTE) THEN Outcome(fsys, "UnicodeDecodeError")
    ELSE LET t == fsys[entry].data
             new_text == NewText(t, package_name)
             backup_path == BackupOf(entry, c.backup_suffix)
             backed == IF ~fsys[backup_path].exists
                       THEN copy2(fsys, w, entry, backup_path)
                       ELSE Outcome(fsys, "none")
         IN IF c.dry_run THEN Outcome(fsys, "none")
            ELSE IF backed.exc # "none" THEN backed
            ELSE write_text(backed.fs, w, entry, new_text)

inject_bootstrap(fsys, w, c, entry, package_name) ==
    IF ~fsys[entry].exists THEN Outcome(fsys, "FileNotFoundError")
    ELSE IF Contains(fsys[entry].data, BADBYTE) THEN Outcome(fsys, "UnicodeDecodeError")
    ELSE LET t == fsys[entry].data
             new_text == NewText(t, package_name)
             backup_path == BackupOf(entry, c.backup_suffix)
             backed == IF ~fsys[backup_path].exists
                       THEN copy2(fsys, w, entry, backup_path)
                       ELSE Outcome(fsys, "none")
         IN IF Contains(t, MARKER) THEN Outcome(fsys, "none")
            ELSE IF c.dry_run THEN Outcome(fsys, "none")
            ELSE IF backed.exc # "none" THEN backed
            ELSE write_text(backed.fs, w, entry, new_text)

\* json.dumps(info, indent=2, sort_keys=True) + "\n": the keys in sorted order.
json_dumps(info) ==
    << "{", NL,
       "host", ":", DQ, info.host, DQ, ",", NL,
       "message", ":", DQ, info.message, DQ, ",", NL,
       "model", ":", DQ, info.model, DQ, ",", NL,
       "port", ":", ToString(info.port), ",", NL,
       "server_module", ":", DQ, info.server_module[1], "/",
           info.server_module[2], DQ, NL,
       "}" >>

create_integration_manifest(fsys, w, c, pkg) ==
    LET info == [message |-> "Codex has been patched to use a local OLAMA model.",
                 server_module |-> <<pkg, ServerName>>,
                 host |-> c.host, port |-> c.port, model |-> c.model]
    IN _write_file(fsys, w, c, File(ManifestName), json_dumps(info) \o <<NL>>)

\* What run() leaves behind: its locals, the files, the exception it raised
\* and the calls that returned before that.
Result(r, p, e, fsys, x, st) ==
    [root |-> r, package_dir |-> p, entrypoint |-> e, fs |-> fsys, exc |-> x,
     stages |-> st]

NoEntry == <<NoPath, "">>

\* run() writing the manifest as soon as the root is located.
run_ManifestFirst(d, tree, pk, fsys, w, c, env_dir, pick) ==
    LET r == locate_codex(d, c, env_dir)
        p == resolve_package_dir(d, tree, pk, r)
        o0 == create_integration_manifest(fsys, w, c, "codex")
        o1 == install_server_module(o0.fs, w, c)
        o2 == inject_bootstrap(o1.fs, w, c, pick, Name(p))
        s1 == <<"locate_codex">>
        s2 == Append(s1, "resolve_package_dir")
        s3 == Append(s2, "resolve_entrypoint")
        s4 == Append(s3, "install_server_module")
        s5 == Append(s4, "inject_bootstrap")
    IN IF r = NotFound
       THEN Result(NoPath, NoPath, NoEntry, fsys, "FileNotFoundError", <<>>)
       ELSE IF o0.exc # "none" THEN Result(r, NoPath, NoEntry, o0.fs, o0.exc, s1)
       ELSE IF p = "<NotADirectoryError>"
       THEN Result(r, NoPath, NoEntry, o0.fs, "NotADirectoryError", s1)
       ELSE IF p = NotFound
       THEN Result(r, NoPath, NoEntry, o0.fs, "FileNotFoundError", s1)
       ELSE IF pick = NoEntry
       THEN Result(r, p, NoEntry, o0.fs, "FileNotFoundError", s2)
       ELSE IF o1.exc # "none" THEN Result(r, p, pick, o1.fs, o1.exc, s3)
       ELSE IF o2.exc # "none" THEN Result(r, p, pick, o2.fs, o2.exc, s4)
       ELSE Result(r, p, pick, o2.fs, "none", s5)

\* run(): pick is the path resolve_entrypoint returns (one of its candidates).
run(d, tree, pk, fsys, w, c, env_dir, pick) ==
    LET r == locate_codex(d, c, env_dir)
        p == resolve_package_dir(d, tree, pk, r)
        o1 == install_server_module(fsys, w, c)
        o2 == inject_bootstrap(o1.fs, w, c, pick, Name(p))
        o3 == create_integration_manifest(o2.fs, w, c, p)
        s1 == <<"locate_codex">>
        s2 == Append(s1, "resolve_package_dir")
        s3 == Append(s2, "resolve_entrypoint")
        s4 == Append(s3, "install_server_module")
        s5 == Append(s4, "inject_bootstrap")
        s6 == Append(s5, "create_integration_manifest")
    IN IF r = NotFound
       THEN Result(NoPath, NoPath, NoEntry, fsys, "FileNotFoundError", <<>>)
       ELSE IF p = "<NotADirectoryError>"
       THEN Result(r, NoPath, NoEntry, fsys, "NotADirectoryError", s1)
       ELSE IF p = NotFound
       THEN Result(r, NoPath, NoEntry, fsys, "FileNotFoundError", s1)
       ELSE IF pick = NoEntry
       THEN Result(r, p, NoEntry, fsys, "FileNotFoundError", s2)
       ELSE IF o1.exc # "none" THEN Result(r, p, pick, o1.fs, o1.exc, s3)
       ELSE IF o2.exc # "none" THEN Result(r, p, pick, o2.fs, o2.exc, s4)
       ELSE IF o3.exc # "none" THEN Result(r, p, pick, o3.fs, o3.exc, s5)
       ELSE Result(r, p, pick, o3.fs, "none", s6)

-----------------------------------------------------------------------------
(* Inputs *)

Hosts == {"127.0.0.1"}
Ports == {3925, 4000}
Models == {"llama3"}

Configs(roots) ==
    [codex_root : roots, model : Models, host : Hosts, port : Ports,
     dry_run : BOOLEAN, backup_suffix : Suffixes]

NoCfg == [codex_root |-> NoPath, model |-> "llama3", host |-> "127.0.0.1",
          port |-> 3925, dry_run |-> FALSE, backup_suffix |-> ".bak"]

-----------------------------------------------------------------------------
(* Operations *)

Static == <<disk, treeRoot, pkgs, writable, fs0>>
Bridge == <<request, rendered>>
Process == <<os_environ, module, servers, portTaken, caller>>
Serving == <<conn, listener>>

\* main(argv): parse_args, construct the integrator, run(), exit code.
Main(c, env_dir) ==
    \E found \in {resolve_entrypoint(fs)} :
    \E pick \in (IF found = {} THEN {NoEntry} ELSE found) :
    \E out \in {run(disk, treeRoot, pkgs, fs, writable, c, env_dir, pick)} :
        /\ fs' = out.fs
        /\ root' = out.root
        /\ package_dir' = out.package_dir
        /\ entrypoint' = out.entrypoint
        /\ stages' = out.stages
        /\ exc' = out.exc
        /\ exitCode' = IF out.exc = "none" THEN 0 ELSE 1
        /\ last' = "main"
        /\ cfg' = c
        /\ environ' = env_dir
        /\ UNCHANGED <<Static, Bridge, Process, Serving>>

\* A direct call of a method, on the package directory resolve_package_dir
\* finds under treeRoot.
Called(op, c, entry, outcome) ==
    \E out \in {outcome} :
    /\ fs' = out.fs
    /\ exc' = out.exc
    /\ last' = op
    /\ cfg' = c
    /\ entrypoint' = entry
    /\ root' = treeRoot
    /\ package_dir' = FirstPackage(pkgs, 1)
    /\ stages' = <<>>
    /\ exitCode' = -1
    /\ environ' = NoPath
    /\ UNCHANGED <<Static, Bridge, Process, Serving>>

CallInstallServerModule(c) ==
    /\ FirstPackage(pkgs, 1) # NotFound
    /\ Called("install_server_module", c, NoEntry,
              install_server_module(fs, writable, c))

CallInjectBootstrap(c, entry) ==
    /\ FirstPackage(pkgs, 1) # NotFound
    /\ Called("inject_bootstrap", c, entry,
              inject_bootstrap(fs, writable, c, entry, Name(FirstPackage(pkgs, 1))))

CallCreateIntegrationManifest(c) ==
    /\ FirstPackage(pkgs, 1) # NotFound
    /\ Called("create_integration_manifest", c, NoEntry,
              create_integration_manifest(fs, writable, c, FirstPackage(pkgs, 1)))

\* resolve_entrypoint called on its own.
CallResolveEntrypoint ==
    \E found \in {resolve_entrypoint(fs)} :
    \E pick \in (IF found = {} THEN {NoEntry} ELSE found) :
      /\ entrypoint' = pick
      /\ exc' = (IF found = {} THEN "FileNotFoundError" ELSE "none")
      /\ last' = "resolve_entrypoint"
      /\ UNCHANGED <<fs, cfg, environ, root, package_dir, stages, exitCode, Static,
                     Bridge, Process, Serving>>

\* locate_codex called on its own.
CallLocateCodex(c, env_dir) ==
    LET r == locate_codex(disk, c, env_dir) IN
      /\ root' = (IF r = NotFound THEN NoPath ELSE r)
      /\ exc' = (IF r = NotFound THEN "FileNotFoundError" ELSE "none")
      /\ last' = "locate_codex"
      /\ cfg' = c
      /\ environ' = env_dir
      /\ UNCHANGED <<fs, package_dir, entrypoint, stages, exitCode, Static, Bridge,
                     Process, Serving>>

-----------------------------------------------------------------------------
(* The bridge server of SERVER_MODULE_TEMPLATE: request translation *)

MaxStrLen == 1
MaxMessages == 2

\* Characters of the strings in a request; str.upper() on each.
Chars == {"a", "B"}
UpperChar(ch) == CASE ch = "a" -> "A" [] ch = "b" -> "B" [] OTHER -> ch

RECURSIVE upper(_)
upper(str) == IF str = <<>> THEN <<>> ELSE <<UpperChar(Head(str))>> \o upper(Tail(str))

\* JSON values: null (also: key absent, as dict.get returns None), strings and
\* lists.
JNull == [kind |-> "null"]
JStr(str) == [kind |-> "str", val |-> str]
JList(items) == [kind |-> "list", val |-> items]

\* bool(value)
Truthy(v) == v.kind # "null" /\ v.val # <<>>

DEFAULT_MODEL == JStr(<<"l", "l", "a", "m", "a", "3">>)

\* item.get(key, default)
Get(item, key, default) == IF item.has[key] THEN item[key] ELSE default

RECURSIVE RenderItems(_)
RenderItems(items) ==
    IF items = <<>> THEN <<>>
    ELSE LET item == Head(items)
             role == Get(item, "role", JStr(<<"u", "s", "e", "r">>))
             content == Get(item, "content", JStr(<<>>))
         IN << <<"[">> \o upper(role.val) \o <<"]", " ">> \o content.val >>
            \o RenderItems(Tail(items))

\* _normalise_prompt preferring a messages list to the prompt.
_normalise_prompt_MessagesFirst(messages, prompt) ==
    IF messages.kind = "list"
    THEN [exc |-> "none",
          prompt |-> join(Append(RenderItems(messages.val), <<"[ASSISTANT]">>)),
          mode |-> "chat"]
    ELSE IF Truthy(prompt)
    THEN [exc |-> "none", prompt |-> prompt.val, mode |-> "completion"]
    ELSE [exc |-> "ValueError", prompt |-> <<>>, mode |-> "none"]

\* _normalise_prompt(messages, prompt)
_normalise_prompt(messages, prompt) ==
    IF Truthy(prompt) THEN [exc |-> "none", prompt |-> prompt.val, mode |-> "completion"]
    ELSE IF messages.kind # "list"
    THEN [exc |-> "ValueError", prompt |-> <<>>, mode |-> "none"]
    ELSE [exc |-> "none",
          prompt |-> join(Append(RenderItems(messages.val), <<"[ASSISTANT]">>)),
          mode |-> "chat"]

\* do_POST up to the call of _run_olama: the model and the prompt it passes.
Translate(payload) ==
    LET model == IF Truthy(payload.model) THEN payload.model ELSE DEFAULT_MODEL
        np == _normalise_prompt(payload.messages, payload.prompt)
    IN [exc |-> np.exc, model |-> model.val, prompt |-> np.prompt, mode |-> np.mode]

NoRequest == [model |-> JNull, prompt |-> JNull, messages |-> JNull]
NoRendered == [exc |-> "none", model |-> <<>>, prompt |-> <<>>, mode |-> "none"]

\* do_POST handling the request that arrived.
DoPost ==
    /\ rendered = NoRendered
    /\ rendered' = Translate(request)
    /\ UNCHANGED request
    /\ UNCHANGED <<fs, last, cfg, environ, root, package_dir, entrypoint, stages,
                   exc, exitCode, Static, Process, Serving>>

\* Request bodies.
RECURSIVE StringsUpTo(_)
StringsUpTo(n) ==
    IF n = 0 THEN {<<>>}
    ELSE StringsUpTo(n - 1)
         \cup {Append(str, ch) : str \in StringsUpTo(n - 1), ch \in Chars}

RECURSIVE ListsUpTo(_, _)
ListsUpTo(S, n) ==
    IF n = 0 THEN {<<>>}
    ELSE ListsUpTo(S, n - 1) \cup {Append(l, x) : l \in ListsUpTo(S, n - 1), x \in S}

Roles == {JStr(str) : str \in StringsUpTo(MaxStrLen)}
Contents == {JStr(<<>>), JStr(<<"h", "i">>), JStr(<<"y", "o", NL, "u">>)}
Items ==
    {[role |-> r, content |-> ct, has |-> [role |-> TRUE, content |-> TRUE]] :
        r \in Roles, ct \in Contents}
    \cup {[role |-> JNull, content |-> ct, has |-> [role |-> FALSE, content |-> TRUE]] :
        ct \in Contents}
    \cup {[role |-> r, content |-> JNull, has |-> [role |-> TRUE, content |-> FALSE]] :
        r \in Roles}
Prompts == {JNull, JStr(<<>>), JStr(<<"h", "i">>)}
MessagesValues == {JNull, JStr(<<"n", "o">>)} \cup {JList(l) : l \in ListsUpTo(Items, MaxMessages)}
Payloads == [model : {JNull, JStr(<<"m">>)}, prompt : Prompts, messages : MessagesValues]

-----------------------------------------------------------------------------
(* The bridge module in a host process: import and ensure_local_model_server *)

MaxServers == 2

\* The host threads that call the bootstrap hook.
Threads == {"t1", "t2"}

\* Values of environment variables are texts; Unset marks an absent variable.
Unset == <<"<unset>">>
EnvKeys == {"CODEX_LOCAL_SERVER_HOST", "CODEX_LOCAL_SERVER_PORT",
            "OPENAI_API_BASE", "OPENAI_API_KEY"}

\* os.environ.get(key, default)
environ_get(env, key, default) == IF env[key] = Unset THEN default ELSE env[key]

\* int(text) of a decimal port number
PortNumbers == Ports \cup {4100}
int(text) == CHOOSE n \in PortNumbers : <<ToString(n)>> = text

\* os.environ.setdefault(key, value) that assigns unconditionally.
setdefault_Assign(env, key, value) == [env EXCEPT ![key] = value]

\* os.environ.setdefault(key, value)
setdefault(env, key, value) ==
    IF env[key] = Unset THEN [env EXCEPT ![key] = value] ELSE env

\* The module-level assignments of the generated module, for the config c that
\* install_server_module compiled in: "{host}" and "{port}" are replaced by
\* str.format, in the defaults of HOST and PORT and inside _API_BASE alike.
Import(c, env) ==
    [HOST |-> environ_get(env, "CODEX_LOCAL_SERVER_HOST", <<c.host>>),
     PORT |-> int(environ_get(env, "CODEX_LOCAL_SERVER_PORT", <<ToString(c.port)>>)),
     _API_BASE |-> <<"http://", c.host, ":", ToString(c.port), "/v1">>,
     _SERVER_THREAD |-> 0,
     _SERVER |-> 0]

\* A ThreadingHTTPServer: "none" not created, "bound" socket bound and
\* listening, "serving" its thread runs serve_forever, "closed" thread ended.
ServerIds == 1..MaxServers
NoServer == [state |-> "none", address |-> <<Unset, 0>>]

\* The address (HOST, PORT) is free to bind.
PortFree(srv, taken) ==
    /\ ~taken
    /\ \A s \in ServerIds : srv[s].state \notin {"bound", "serving"}

\* Exceptions: type and str(exc).
NoExc == [type |-> "none", message |-> <<>>]
PortInUse(m) ==
    [type |-> "RuntimeError",
     message |-> <<"Port ", ToString(m.PORT), " on ">> \o m.HOST
                 \o <<" is already in use; set ", "CODEX_LOCAL_SERVER_PORT",
                      " to override">>]
AddressInUse == [type |-> "OSError", message |-> <<"[Errno 98] Address already in use">>]

NoRet == [host |-> <<>>, port |-> "", base_url |-> <<>>]

\* A thread outside any call.  seen, binds and starts are ghost fields: the
\* value of _SERVER_THREAD when the call began, and the sockets bound and
\* threads started by the call.
Idle == [pc |-> "idle", server |-> 0, exc |-> NoExc, ret |-> NoRet,
         seen |-> 0, binds |-> 0, starts |-> 0]

\* The test of _start_server when it never finds the server started.
AlreadyStarted_Never(m, srv) == FALSE

\* _SERVER_THREAD and _SERVER_THREAD.is_alive()
AlreadyStarted(m, srv) ==
    m._SERVER_THREAD # 0 /\ srv[m._SERVER_THREAD].state = "serving"

Others == <<fs, last, cfg, environ, root, package_dir, entrypoint, stages, exc,
            exitCode, Static, Bridge>>

\* ensure_local_model_server() is called on thread t.
Call(t) ==
    /\ caller[t].pc \in {"idle", "returned", "raised"}
    /\ caller' = [caller EXCEPT ![t] = [Idle EXCEPT !.pc = "check",
                                                    !.seen = module._SERVER_THREAD]]
    /\ UNCHANGED <<os_environ, module, servers, portTaken, Serving, Others>>

\* _start_server: the "already started" test.
Check(t) ==
    /\ caller[t].pc = "check"
    /\ caller' = [caller EXCEPT ![t].pc =
                     IF AlreadyStarted(module, servers) THEN "setdefault_base"
                     ELSE "probe"]
    /\ UNCHANGED <<os_environ, module, servers, portTaken, Serving, Others>>

\* _start_server: the probe socket is bound and closed again.
Probe(t) ==
    /\ caller[t].pc = "probe"
    /\ caller' = [caller EXCEPT ![t] =
                     IF PortFree(servers, portTaken)
                     THEN [@ EXCEPT !.pc = "create", !.binds = @ + 1]
                     ELSE [@ EXCEPT !.pc = "raised", !.exc = PortInUse(module)]]
    /\ UNCHANGED <<os_environ, module, servers, portTaken, Serving, Others>>

\* _start_server: server = ThreadingHTTPServer((HOST, PORT), ...); _SERVER = server
Create(t) ==
    /\ caller[t].pc = "create"
    /\ IF PortFree(servers, portTaken)
       THEN \E s \in ServerIds :
              /\ servers[s].state = "none"
              /\ \A u \in ServerIds : u < s => servers[u].state # "none"
              /\ servers' = [servers EXCEPT ![s] =
                                [state |-> "bound",
                                 address |-> <<module.HOST, module.PORT>>]]
              /\ module' = [module EXCEPT !._SERVER = s]
              /\ caller' = [caller EXCEPT ![t].pc = "start", ![t].server = s,
                                          ![t].binds = @ + 1]
       ELSE /\ caller' = [caller EXCEPT ![t].pc = "raised", ![t].exc = AddressInUse]
            /\ UNCHANGED <<servers, module>>
    /\ UNCHANGED <<os_environ, portTaken, Serving, Others>>

\* _start_server: thread = threading.Thread(target=_serve, daemon=True); thread.start()
Start(t) ==
    /\ caller[t].pc = "start"
    /\ servers' = [servers EXCEPT ![caller[t].server].state = "serving"]
    /\ caller' = [caller EXCEPT ![t].pc = "assign", ![t].starts = @ + 1]
    /\ UNCHANGED <<os_environ, module, portTaken, Serving, Others>>

\* _start_server: _SERVER_THREAD = thread
Assign(t) ==
    /\ caller[t].pc = "assign"
    /\ module' = [module EXCEPT !._SERVER_THREAD = caller[t].server]
    /\ caller' = [caller EXCEPT ![t].pc = "setdefault_base"]
    /\ UNCHANGED <<os_environ, servers, portTaken, Serving, Others>>

\* os.environ.setdefault("OPENAI_API_BASE", _API_BASE)
SetdefaultBase(t) ==
    /\ caller[t].pc = "setdefault_base"
    /\ os_environ' = setdefault(os_environ, "OPENAI_API_BASE", module._API_BASE)
    /\ caller' = [caller EXCEPT ![t].pc = "setdefault_key"]
    /\ UNCHANGED <<module, servers, portTaken, Serving, Others>>

\* os.environ.setdefault("OPENAI_API_KEY", "olama-local"), and the return
SetdefaultKey(t) ==
    /\ caller[t].pc = "setdefault_key"
    /\ os_environ' = setdefault(os_environ, "OPENAI_API_KEY", <<"olama-local">>)
    /\ caller' = [caller EXCEPT ![t].pc = "returned",
                                ![t].ret = [host |-> module.HOST,
                                            port |-> ToString(module.PORT),
                                            base_url |-> module._API_BASE]]
    /\ UNCHANGED <<module, servers, portTaken, Serving, Others>>

Hook(t) ==
    \/ Call(t)
    \/ Check(t)
    \/ Probe(t)
    \/ Create(t)
    \/ Start(t)
    \/ Assign(t)
    \/ SetdefaultBase(t)
    \/ SetdefaultKey(t)

\* Another process binds the address, or closes its socket again.
OtherBinds ==
    /\ PortFree(servers, portTaken)
    /\ portTaken' = TRUE
    /\ UNCHANGED <<os_environ, module, servers, caller, Serving, Others>>

OtherCloses ==
    /\ portTaken
    /\ portTaken' = FALSE
    /\ UNCHANGED <<os_environ, module, servers, caller, Serving, Others>>

\* serve_forever ends (it raised, or shutdown() was called through _SERVER):
\* "with server" closes the socket and the thread is no longer alive.
ListenerEnds(s) ==
    /\ servers[s].state = "serving"
    /\ servers' = [servers EXCEPT ![s].state = "closed"]
    /\ UNCHANGED <<os_environ, module, portTaken, caller, Serving, Others>>

-----------------------------------------------------------------------------
(* The bridge server: a POST from its connection to its response *)

MaxConns == 2

Conns == 1..MaxConns

\* Request bodies: nothing, text that is not JSON, a JSON array, a JSON object.
BodyEmpty == [kind |-> "empty", payload |-> NoRequest]
BodyGarbage == [kind |-> "garbage", payload |-> NoRequest]
BodyArray == [kind |-> "array", payload |-> NoRequest]
BodyObject(p) == [kind |-> "object", payload |-> p]

\* _read_json: json.loads(body or "{}")
_read_json(body) ==
    CASE body.kind = "garbage" -> [exc |-> "JSONDecodeError", kind |-> "none", val |-> NoRequest]
      [] body.kind = "array" -> [exc |-> "none", kind |-> "list", val |-> NoRequest]
      [] body.kind = "empty" -> [exc |-> "none", kind |-> "dict", val |-> NoRequest]
      [] OTHER -> [exc |-> "none", kind |-> "dict", val |-> body.payload]

\* do_POST from _read_json to the arguments of _run_olama; payload.get on a
\* value that is not a dict raises AttributeError.
ReadAndTranslate(body) ==
    LET parsed == _read_json(body) IN
      IF parsed.exc # "none" THEN [NoRendered EXCEPT !.exc = parsed.exc]
      ELSE IF parsed.kind # "dict" THEN [NoRendered EXCEPT !.exc = "AttributeError"]
      ELSE Translate(parsed.val)

\* What subprocess.run observes of the backing process; hangs: it never exits.
Procs ==
    {[returncode |-> 0, stdout |-> <<SP, "Hello", NL>>, hangs |-> FALSE],
     [returncode |-> 1, stdout |-> <<>>, hangs |-> FALSE],
     [returncode |-> 0, stdout |-> <<>>, hangs |-> TRUE]}
NoProc == [returncode |-> 0, stdout |-> <<>>, hangs |-> FALSE]

\* _run_olama once subprocess.run has returned
_run_olama(prompt, model, proc) ==
    IF proc.returncode # 0 THEN [exc |-> "RuntimeError", out |-> <<>>]
    ELSE [exc |-> "none", out |-> strip(proc.stdout)]

\* str(exc) of the exceptions do_POST can see
str_exc(e) ==
    CASE e = "ValueError" -> "messages must be a list of chat messages"
      [] e = "JSONDecodeError" -> "Expecting property name enclosed in double quotes"
      [] e = "AttributeError" -> "'list' object has no attribute 'get'"
      [] e = "RuntimeError" -> "('OLAMA command failed', cmd, returncode, stderr)"
      [] OTHER -> e

\* _send_error(message): the response it writes
_send_error(message) ==
    [status |-> 500,
     body |-> [error |-> [message |-> message, type |-> "olama_error"]]]

\* _set_headers() and the body do_POST writes after it
SendCompletion(tr, completion) ==
    [status |-> 200,
     body |-> [object |-> IF tr.mode = "chat" THEN "chat.completion"
                          ELSE "text_completion",
               model |-> tr.model,
               key |-> IF tr.mode = "chat" THEN "message" ELSE "text",
               content |-> completion]]

\* An except clause that lets the exception escape the handler.
HandleException_Reraise(e) == <<>>

\* except Exception as exc: self._send_error(str(exc))
HandleException(e) == << _send_error(str_exc(e)) >>

\* ThreadingHTTPServer replaced by HTTPServer: the request is handled on the
\* thread of serve_forever itself.
process_request_Inline(lst, r) == r

\* ThreadingMixIn.process_request: a new thread handles the request, and
\* serve_forever goes on accepting (0).
process_request(lst, r) == lst

\* A worker that finishes the request serve_forever was waiting for.
Release(lst, r) == IF lst = r THEN 0 ELSE lst

\* after and during are ghost fields: the connections that had got an error
\* response, and those whose backing process was hanging, when this one was
\* accepted.
NoConn == [state |-> "closed", body |-> BodyEmpty, args |-> NoRendered,
           proc |-> NoProc, responses |-> <<>>, after |-> {}, during |-> {}]

Listening == \E s \in ServerIds : servers[s].state \in {"bound", "serving"}
ServeForever == \E s \in ServerIds : servers[s].state = "serving"

Failed(cn) == cn.state = "answered" /\ cn.responses # <<>>
              /\ cn.responses[1].status = 500

Hung(cn) == cn.state = "running" /\ cn.proc.hangs

Rest == <<os_environ, module, servers, portTaken, caller, Others>>

\* A client connects and sends its POST.
Connect(r, body) ==
    /\ conn[r].state = "closed"
    /\ Listening
    /\ conn' = [conn EXCEPT ![r] = [NoConn EXCEPT !.state = "queued", !.body = body]]
    /\ UNCHANGED <<listener, Rest>>

\* serve_forever takes the connection and hands it to process_request.
Accept(r) ==
    /\ conn[r].state = "queued"
    /\ ServeForever
    /\ listener = 0
    /\ listener' = process_request(listener, r)
    /\ conn' = [conn EXCEPT ![r].state = "handling",
                            ![r].after = {q \in Conns : Failed(conn[q])},
                            ![r].during = {q \in Conns : Hung(conn[q])}]
    /\ UNCHANGED Rest

\* do_POST up to subprocess.run: an exception goes to the except clause,
\* otherwise the backing process is started.
DoPostRun(r) ==
    /\ conn[r].state = "handling"
    /\ \E tr \in {ReadAndTranslate(conn[r].body)} :
         IF tr.exc # "none"
         THEN /\ conn' = [conn EXCEPT ![r].state = "answered",
                                      ![r].responses = HandleException(tr.exc)]
              /\ listener' = Release(listener, r)
         ELSE /\ \E proc \in Procs :
                   conn' = [conn EXCEPT ![r].state = "running", ![r].args = tr,
                                        ![r].proc = proc]
              /\ UNCHANGED listener
    /\ UNCHANGED Rest

\* do_POST from the return of subprocess.run on.
DoPostRespond(r) ==
    /\ conn[r].state = "running"
    /\ ~conn[r].proc.hangs
    /\ \E res \in {_run_olama(conn[r].args.prompt, conn[r].args.model, conn[r].proc)} :
         conn' = [conn EXCEPT ![r].state = "answered",
                              ![r].responses =
                                  IF res.exc # "none" THEN HandleException(res.exc)
                                  ELSE << SendCompletion(conn[r].args, res.out) >>]
    /\ listener' = Release(listener, r)
    /\ UNCHANGED Rest

\* Request bodies sent to the server.
ServePayloads ==
    {[NoRequest EXCEPT !.prompt = JStr(<<"h", "i">>)],
     [NoRequest EXCEPT !.messages = JStr(<<"n", "o">>)],
     NoRequest,
     [NoRequest EXCEPT !.messages =
         JList(<< [role |-> JStr(<<"a">>), content |-> JStr(<<"h", "i">>),
                   has |-> [role |-> TRUE, content |-> TRUE]] >>)]}
ServeBodies == {BodyGarbage, BodyArray, BodyEmpty} \cup {BodyObject(p) : p \in ServePayloads}

-----------------------------------------------------------------------------
(* Installations the integrator is run against *)

MaxDocLines == 2
MaxImports == 1

\* A module docstring of n >= 1 lines: the opening quotes and the summary on
\* the first line, the closing quotes at the end of the last.
RECURSIVE DocBody(_)
DocBody(n) == IF n <= 1 THEN <<>> ELSE <<NL, PROSE>> \o DocBody(n - 1)
Docstring(n) == <<TQ, PROSE>> \o DocBody(n) \o <<TQ, NL>>

RECURSIVE ImportLines(_)
ImportLines(n) == IF n = 0 THEN <<>> ELSE <<IMPORT, "os", NL>> \o ImportLines(n - 1)

FunctionDef == <<CODE, NL, SP, SP, SP, SP, "pass", NL>>

\* docstring of d lines, then i import lines, then a function definition
DocstringEntrypoint(d, i) == Docstring(d) \o ImportLines(i) \o FunctionDef

GuardScript == <<IMPORT, "sys", NL, "if ", MAINGUARD, ":", NL, SP, "main()", NL>>
MentionScript == <<HASH, " TODO: call ", MARKER, NL, CODE, NL>>
BinaryScript == <<BADBYTE, NL, CODE, NL>>
OnlyImports == <<HASH, "!/usr/bin/env python", NL, NL, FROM, "os import path">>
UserServer == <<HASH, " hand-written stub", NL>>
StaleBackup == <<HASH, " an older copy", NL>>

EmptyTree == [p \in Paths |-> NoFile]
With(fsys, path, data) == [fsys EXCEPT ![path] = Data(data)]

EntryLayouts ==
    {With(EmptyTree, File("cli.py"), DocstringEntrypoint(d, i)) :
        d \in 1..MaxDocLines, i \in 0..MaxImports}
    \cup {With(With(EmptyTree, File("__main__.py"), DocstringEntrypoint(MaxDocLines, 1)),
               File("cli.py"), DocstringEntrypoint(1, 1)),
          With(EmptyTree, File("tool.py"), GuardScript),
          With(EmptyTree, File("codex-launcher"), GuardScript),
          With(With(EmptyTree, File("tool.py"), GuardScript),
               File("main.py"), OnlyImports),
          With(EmptyTree, File("app.py"), MentionScript),
          With(EmptyTree, File("main.py"), BinaryScript),
          With(With(EmptyTree, File("cli.py"), DocstringEntrypoint(1, 1)),
               <<"cli.py", ".bak">>, StaleBackup),
          EmptyTree}

\* The same with a local_model_server.py already there (hand-written, or one
\* that itself carries the main guard).
TreeLayouts ==
    EntryLayouts
    \cup {With(t, File(ServerName), UserServer) : t \in EntryLayouts}
    \cup {With(EmptyTree, File(ServerName), GuardScript),
          With(With(EmptyTree, File("tool.py"), GuardScript),
               File(ServerName), GuardScript)}

NoDisk == [p \in RootCandidates |-> "none"]
NoPkgs == [p \in PackageDirs |-> "none"]
StdDisk == [NoDisk EXCEPT ![ExplicitPath] = "dir"]
StdPkgs == [NoPkgs EXCEPT !["codex"] = "package"]
StdTree == With(EmptyTree, File("cli.py"), DocstringEntrypoint(1, 1))

Installation(d, t, pk, f) == [disk |-> d, treeRoot |-> t, pkgs |-> pk, fs |-> f]

Installations ==
    {Installation(StdDisk, ExplicitPath, StdPkgs, f) : f \in TreeLayouts}
    \cup {Installation(StdDisk, ExplicitPath, pk, StdTree) :
            pk \in {NoPkgs,
                    [NoPkgs EXCEPT !["codex"] = "dir", !["src/codex"] = "package"],
                    [NoPkgs EXCEPT !["lib/codex"] = "package", !["codex_cli"] = "package"],
                    [NoPkgs EXCEPT !["codex_cli"] = "package"]}}
    \cup {Installation(NoDisk, NoPath, NoPkgs, EmptyTree),
          Installation([NoDisk EXCEPT !["~/codex"] = "dir"], "~/codex", StdPkgs, StdTree),
          Installation([NoDisk EXCEPT ![ExplicitPath] = "file", !["/opt/codex"] = "dir"],
                       "/opt/codex", StdPkgs, StdTree),
          Installation([NoDisk EXCEPT ![ExplicitPath] = "dir", ![EnvPath] = "dir"],
                       EnvPath, StdPkgs, StdTree)}

IdleIntegrator ==
    /\ last = "none"
    /\ cfg = NoCfg
    /\ environ = NoPath
    /\ root = NoPath
    /\ package_dir = NoPath
    /\ entrypoint = NoEntry
    /\ stages = <<>>
    /\ exc = "none"
    /\ exitCode = -1

IdleBridge ==
    /\ request = NoRequest
    /\ rendered = NoRendered

\* No bridge module is loaded in a process.
IdleProcess ==
    /\ os_environ = [k \in EnvKeys |-> Unset]
    /\ module = Import(NoCfg, os_environ)
    /\ servers = [s \in ServerIds |-> NoServer]
    /\ portTaken = FALSE
    /\ caller = [t \in Threads |-> Idle]

IdleServing ==
    /\ conn = [r \in Conns |-> NoConn]
    /\ listener = 0

\* Installations on a read-only tree.
ReadOnlyInstallations ==
    {Installation(StdDisk, ExplicitPath, StdPkgs, f) :
        f \in {StdTree, With(StdTree, File(ServerName), UserServer)}}

Init ==
    /\ \E w \in BOOLEAN :
       \E inst \in (IF w THEN Installations ELSE ReadOnlyInstallations) :
         /\ disk = inst.disk
         /\ treeRoot = inst.treeRoot
         /\ pkgs = inst.pkgs
         /\ fs = inst.fs
         /\ writable = w
    /\ fs0 = fs
    /\ IdleIntegrator
    /\ IdleBridge
    /\ IdleProcess
    /\ IdleServing

\* main() is given every config; a method called on its own is given the
\* configs that differ in the fields it reads.
Next ==
    \/ \E c \in Configs({NoPath, ExplicitPath}) : Main(c, NoPath)
    \/ \E c \in Configs({NoPath}) : Main(c, EnvPath)
    \/ \E c \in Configs({NoPath}) : CallInstallServerModule(c)
    \/ \E c \in {k \in Configs({NoPath}) : k.port = NoCfg.port},
          n \in {m \in EntryNames : fs[File(m)].exists} :
         CallInjectBootstrap(c, File(n))
    \/ \E c \in {k \in Configs({NoPath}) : k.backup_suffix = NoCfg.backup_suffix} :
         CallCreateIntegrationManifest(c)

Spec == Init /\ [][Next]_vars

\* Runs of main() alone: no method is called on its own.
NextRuns ==
    \/ \E c \in Configs({NoPath, ExplicitPath}) : Main(c, NoPath)
    \/ \E c \in Configs({NoPath}) : Main(c, EnvPath)

SpecRuns == Init /\ [][NextRuns]_vars

\* locate_codex as a function of the disk, the explicit path and the
\* environment.
InitLocate ==
    /\ disk \in [RootCandidates -> PathKinds]
    /\ treeRoot = NoPath
    /\ pkgs = NoPkgs
    /\ fs = EmptyTree
    /\ writable = TRUE
    /\ fs0 = fs
    /\ IdleIntegrator
    /\ IdleBridge
    /\ IdleProcess
    /\ IdleServing

NextLocate ==
    \E r \in {NoPath, ExplicitPath}, env_dir \in {NoPath, EnvPath} :
        CallLocateCodex([NoCfg EXCEPT !.codex_root = r], env_dir)

SpecLocate == InitLocate /\ [][NextLocate]_vars

\* resolve_entrypoint as a function of the files of the package directory:
\* each is absent, a module without the main guard, or a script with it.
InitResolve ==
    /\ disk = StdDisk
    /\ treeRoot = ExplicitPath
    /\ pkgs = StdPkgs
    /\ \E present \in [DirNames -> {"absent", "module", "script"}] :
         fs = [p \in Paths |->
                 IF p[2] # "" \/ p[1] \notin DirNames \/ present[p[1]] = "absent"
                 THEN NoFile
                 ELSE IF present[p[1]] = "module" THEN Data(FunctionDef)
                 ELSE Data(GuardScript)]
    /\ writable = TRUE
    /\ fs0 = fs
    /\ IdleIntegrator
    /\ IdleBridge
    /\ IdleProcess
    /\ IdleServing

NextResolve == CallResolveEntrypoint

SpecResolve == InitResolve /\ [][NextResolve]_vars

\* The bridge's request translation as a function of the request body.
InitBridge ==
    /\ disk = NoDisk
    /\ treeRoot = NoPath
    /\ pkgs = NoPkgs
    /\ fs = EmptyTree
    /\ writable = TRUE
    /\ fs0 = fs
    /\ IdleIntegrator
    /\ request \in Payloads
    /\ rendered = NoRendered
    /\ IdleProcess
    /\ IdleServing

NextBridge == DoPost

SpecBridge == InitBridge /\ [][NextBridge]_vars

\* The generated module imported into a host process, for each environment
\* it can find there; no integrator runs and no request is translated.
HookEnvs ==
    {[k \in EnvKeys |->
         CASE k = "CODEX_LOCAL_SERVER_HOST" -> h
           [] k = "CODEX_LOCAL_SERVER_PORT" -> p
           [] k = "OPENAI_API_BASE" -> b
           [] OTHER -> key] :
       h \in {Unset, <<"0.0.0.0">>}, p \in {Unset, <<"4000">>},
       b \in {Unset, <<"https://api.example/v1">>},
       key \in {Unset, <<"sk-operator">>}}

InitProcess ==
    /\ disk = NoDisk
    /\ treeRoot = NoPath
    /\ pkgs = NoPkgs
    /\ fs = EmptyTree
    /\ writable = TRUE
    /\ fs0 = fs
    /\ IdleIntegrator
    /\ IdleBridge
    /\ servers = [s \in ServerIds |-> NoServer]
    /\ caller = [t \in Threads |-> Idle]
    /\ IdleServing

\* Threads of the host process call the hook while another process may hold
\* the port and the listener thread may end.
InitHook ==
    /\ InitProcess
    /\ os_environ \in HookEnvs
    /\ module = Import(NoCfg, os_environ)
    /\ portTaken \in BOOLEAN

NextHook ==
    \/ \E t \in Threads : Hook(t)
    \/ OtherBinds
    \/ OtherCloses
    \/ \E s \in ServerIds : ListenerEnds(s)

SpecHook == InitHook /\ [][NextHook]_vars

\* One thread calls the hook again and again.
NextSequential ==
    \/ Hook("t1")
    \/ OtherBinds
    \/ OtherCloses
    \/ \E s \in ServerIds : ListenerEnds(s)

SpecSequential == InitHook /\ [][NextSequential]_vars

\* The threads of one process alone: no other process touches the port and
\* the listener thread stays alive.
InitRace ==
    /\ InitHook
    /\ ~portTaken

NextRace == \E t \in Threads : Hook(t)

SpecRace == InitRace /\ [][NextRace]_vars

\* One host thread calls the hook once, and clients send requests to the
\* listener it started.
InitServe ==
    /\ InitProcess
    /\ os_environ = [k \in EnvKeys |-> Unset]
    /\ module = Import(NoCfg, os_environ)
    /\ portTaken = FALSE

HookOnce == caller["t1"].pc \notin {"returned", "raised"} /\ Hook("t1")

NextServe ==
    \/ HookOnce
    \/ \E r \in Conns, body \in ServeBodies : Connect(r, body)
    \/ \E r \in Conns : Accept(r)
    \/ \E r \in Conns : DoPostRun(r)
    \/ \E r \in Conns : DoPostRespond(r)

SpecServe == InitServe /\ [][NextServe]_vars

\* The same with the scheduling of threads: the host thread, the listener
\* thread and every worker thread take their steps when they can.  The
\* requests are one that fails before the backing process is started and one
\* that starts it.
WorkerBodies == {BodyGarbage, BodyObject([NoRequest EXCEPT !.prompt = JStr(<<"h", "i">>)])}

NextServeFair ==
    \/ HookOnce
    \/ \E r \in Conns, body \in WorkerBodies : Connect(r, body)
    \/ \E r \in Conns : Accept(r)
    \/ \E r \in Conns : DoPostRun(r)
    \/ \E r \in Conns : DoPostRespond(r)

SpecServeFair ==
    /\ InitServe
    /\ [][NextServeFair]_vars
    /\ WF_vars(HookOnce)
    /\ \A r \in Conns : /\ WF_vars(Accept(r))
                        /\ WF_vars(DoPostRun(r))
                        /\ WF_vars(DoPostRespond(r))

-----------------------------------------------------------------------------
(* Properties *)

ServerPath == File(ServerName)
ManifestPath == File(ManifestName)
EntryPaths == {File(n) : n \in EntryNames}
AllStages == <<"locate_codex", "resolve_package_dir", "resolve_entrypoint",
               "install_server_module", "inject_bootstrap",
               "create_integration_manifest">>

\* The call that completed last was main(), and its locate_codex,
\* resolve_package_dir and resolve_entrypoint returned.
RunResolved == last = "main" /\ Len(stages) >= 3

\* Number of injected blocks in a text.
Blocks(t, package_name) ==
    LET block == injection(package_name) IN
    Cardinality({i \in 1..Len(t) :
        /\ t[i] = block[1]
        /\ i + Len(block) - 1 <= Len(t)
        /\ SubSeq(t, i, i + Len(block) - 1) = block})

\* The bootstrap call: the line of the injected block that calls the hook.
HasBootstrapCall(t) ==
    \E i \in 1..Len(t) - 1 : t[i] = MARKER /\ t[i + 1] = "()"

\* C1: when locate_codex, resolve_package_dir and resolve_entrypoint succeed
\* and the files are writable (and the Entrypoint is readable text that does
\* not hold the marker yet), a non-dry-run main() goes through locate ->
\* resolve -> install bridge module -> inject bootstrap -> write manifest,
\* returns 0 and leaves the bridge module written, the Entrypoint containing
\* the bootstrap call and the manifest present; it returns 1 only when a
\* stage raised.
C1_RunCompletesAllStages ==
    /\ (RunResolved /\ ~cfg.dry_run /\ writable
          /\ ~Contains(fs0[entrypoint].data, BADBYTE)
          /\ ~Contains(fs0[entrypoint].data, MARKER))
       => /\ stages = AllStages
          /\ exitCode = 0
          /\ fs[ServerPath].exists
          /\ HasBootstrapCall(fs[entrypoint].data)
          /\ fs[ManifestPath].exists
    /\ (last = "main" /\ exitCode = 1) => exc # "none"

PackageName == Name(FirstPackage(pkgs, 1))

\* C2: once inject_bootstrap has patched an Entrypoint, no further
\* inject_bootstrap or run changes its content, and it holds exactly one
\* injected block (a call changes only a file without a block, and leaves it
\* with one); a second run with the same config leaves the Entrypoint as the
\* first left it.
C2_PatchedOnce ==
    [][/\ \A p \in EntryPaths :
            fs'[p] # fs[p] => /\ Blocks(fs[p].data, PackageName) = 0
                              /\ Blocks(fs'[p].data, PackageName) = 1
       /\ (last = "main" /\ last' = "main" /\ cfg' = cfg /\ environ' = environ
             /\ entrypoint # NoEntry)
          => fs'[entrypoint] = fs[entrypoint]]_vars

\* A patched Entrypoint on which a further non-dry-run inject_bootstrap, with
\* another backup suffix, has returned: it made no second backup.
C2_Witness ==
    /\ last = "inject_bootstrap" /\ exc = "none" /\ ~cfg.dry_run
    /\ cfg.backup_suffix = ".orig"
    /\ Blocks(fs[entrypoint].data, PackageName) = 1
    /\ fs[BackupOf(entrypoint, ".bak")].exists
    /\ ~fs[BackupOf(entrypoint, ".orig")].exists

\* C3: starting from an unpatched Entrypoint with no backup, after a
\* non-dry-run run the Entrypoint's backup holds the Entrypoint's content
\* from before the first run; and a backup that exists is never changed.
C3_BackupHoldsOriginal ==
    /\ (RunResolved /\ ~cfg.dry_run /\ writable
          /\ ~Contains(fs0[entrypoint].data, BADBYTE)
          /\ ~Contains(fs0[entrypoint].data, MARKER)
          /\ \A sfx \in Suffixes : ~fs0[BackupOf(entrypoint, sfx)].exists)
       => /\ fs[BackupOf(entrypoint, cfg.backup_suffix)].exists
          /\ fs[BackupOf(entrypoint, cfg.backup_suffix)].data = fs0[entrypoint].data
    /\ \A p \in Paths : (p[2] # "" /\ fs0[p].exists) => fs[p] = fs0[p]

\* C4: a call with the dry-run flag set (run, install_server_module,
\* inject_bootstrap, create_integration_manifest) leaves every file as it
\* was: none created, modified or deleted.
C4_DryRunWritesNothing ==
    [][cfg'.dry_run => fs' = fs]_vars

\* A dry-run inject_bootstrap has returned on an Entrypoint that is not
\* patched (a non-dry-run call would have written).
C4_Witness ==
    /\ last = "inject_bootstrap" /\ exc = "none" /\ cfg.dry_run
    /\ fs[entrypoint].exists
    /\ ~Contains(fs[entrypoint].data, MARKER)
    /\ \A sfx \in Suffixes : ~fs[BackupOf(entrypoint, sfx)].exists

\* C5: a run in which locate_codex, resolve_package_dir or resolve_entrypoint
\* fails has written no file; and a run changes the manifest only when
\* install_server_module and inject_bootstrap have both returned.
C5_AbortWritesNothing ==
    [][last' = "main" =>
         /\ Len(stages') < 3 => fs' = fs
         /\ fs'[ManifestPath] # fs[ManifestPath] => Len(stages') >= 5]_vars

\* A run that failed in resolve_entrypoint, on a tree whose files a later
\* stage would have touched (a bridge module to back up).
C5_Witness ==
    /\ last = "main" /\ exitCode = 1 /\ stages = <<"locate_codex", "resolve_package_dir">>
    /\ ~cfg.dry_run /\ writable
    /\ fs[ServerPath].exists

\* The paths locate_codex is given, in the order explicit > environment >
\* defaults.
Candidates(c, env_dir) ==
    (IF c.codex_root # NoPath THEN <<c.codex_root>> ELSE <<>>)
    \o (IF env_dir # NoPath THEN <<env_dir>> ELSE <<>>)
    \o DEFAULT_INSTALL_LOCATIONS

C7_BlockBeforeFunction ==
    \A p \in EntryPaths, d \in 1..MaxDocLines, i \in 0..MaxImports :
      (fs0[p].exists /\ fs0[p].data = DocstringEntrypoint(d, i) /\ fs[p] # fs0[p])
      => splitlines(fs[p].data)
           = splitlines(Docstring(d) \o ImportLines(i))
             \o splitlines(injection(PackageName))
             \o << <<>> >>
             \o splitlines(FunctionDef)

\* The template rendered for (host, port, model): those three fields
\* substituted, every other character of the template as it is.
Rendering(c) ==
    [i \in 1..Len(SERVER_MODULE_TEMPLATE) |->
        LET seg == SERVER_MODULE_TEMPLATE[i] IN
        IF seg[1] = "field" /\ seg[2] \in {"host", "port", "model"}
        THEN Formatted(c, seg[2]) ELSE seg[2]]

\* C8: after a non-dry-run install_server_module on a writable tree, called
\* on its own or by run(), local_model_server.py holds exactly the rendering
\* of the template for the call's (host, port, model).
C8_ModuleIsRendering ==
    ((last = "install_server_module" \/ RunResolved) /\ ~cfg.dry_run /\ writable)
    => fs[ServerPath] = Data(Rendering(cfg))

Capital(ch) == IF ch = "a" THEN "A" ELSE IF ch = "b" THEN "B" ELSE ch
RECURSIVE ChatLines(_)
ChatLines(items) ==
    IF items = <<>> THEN <<"[ASSISTANT]">>
    ELSE LET item == Head(items) IN
         <<"[">> \o [i \in 1..Len(item.role.val) |-> Capital(item.role.val[i])]
         \o <<"]", " ">> \o item.content.val \o <<NL>> \o ChatLines(Tail(items))

\* C10: a request with a non-empty prompt is translated to mode "completion"
\* with the prompt verbatim, whatever messages holds; otherwise a messages
\* list of {role, content} records is translated to mode "chat" with one line
\* "[ROLE-UPPERCASED] content" per message in order, then "[ASSISTANT]".
C10_RequestTranslation ==
    rendered # NoRendered =>
      /\ Truthy(request.prompt) =>
           /\ rendered.exc = "none"
           /\ rendered.mode = "completion"
           /\ rendered.prompt = request.prompt.val
      /\ (/\ ~Truthy(request.prompt)
          /\ request.messages.kind = "list"
          /\ \A k \in 1..Len(request.messages.val) :
                request.messages.val[k].has.role /\ request.messages.val[k].has.content)
         => /\ rendered.exc = "none"
            /\ rendered.mode = "chat"
            /\ rendered.prompt = ChatLines(request.messages.val)

\* A chat request of two {role, content} messages, one with a lower-case
\* role, has been translated.
C10_Witness ==
    /\ rendered.mode = "chat"
    /\ Len(request.messages.val) = 2
    /\ \A k \in 1..2 : request.messages.val[k].has.role /\ request.messages.val[k].has.content
    /\ request.messages.val[1].role.val = <<"a">>
    /\ request.messages.val[2].content.val = <<"h", "i">>

-----------------------------------------------------------------------------
(* The bridge server *)

\* The request on connection r is one do_POST handles without an exception:
\* a JSON object with a non-empty prompt or a list of messages, and a backing
\* process that exits with 0.
Handled(cn) ==
    /\ cn.body.kind = "object"
    /\ \/ Truthy(cn.body.payload.prompt)
       \/ cn.body.payload.messages.kind = "list"
    /\ cn.proc.returncode = 0

\* The message of the failure of the request on connection r.
FailureMessage(cn) ==
    CASE cn.body.kind = "garbage" -> "Expecting property name enclosed in double quotes"
      [] cn.body.kind = "array" -> "'list' object has no attribute 'get'"
      [] cn.body.kind = "empty" -> "messages must be a list of chat messages"
      [] ~Truthy(cn.body.payload.prompt) /\ cn.body.payload.messages.kind # "list"
           -> "messages must be a list of chat messages"
      [] OTHER -> "('OLAMA command failed', cmd, returncode, stderr)"

\* C11: every POST that do_POST has finished with got exactly one response
\* (and none before that): status 200 when the request was handled, otherwise
\* status 500 with the envelope {"error": {"message": ..., "type":
\* "olama_error"}} carrying the message of the failure; and once a request has
\* failed the listener thread is still in serve_forever, free to accept.
C11_OneResponsePerRequest ==
    /\ \A r \in Conns :
         LET cn == conn[r] IN
           /\ cn.state # "answered" => cn.responses = <<>>
           /\ cn.state = "answered" =>
                /\ Len(cn.responses) = 1
                /\ IF Handled(cn) THEN cn.responses[1].status = 200
                   ELSE cn.responses[1] =
                          [status |-> 500,
                           body |-> [error |-> [message |-> FailureMessage(cn),
                                                type |-> "olama_error"]]]
    /\ (\E r \in Conns : conn[r].state = "answered" /\ ~Handled(conn[r]))
         => ServeForever /\ listener = 0

\* Each kind of failure has been answered, and a request accepted after a
\* failed one has been answered with 200.
C11_Witness ==
    \E r, q \in Conns :
       /\ q \in conn[r].after
       /\ conn[q].state = "answered" /\ conn[q].responses[1].status = 500
       /\ conn[q].body.kind = "object"
       /\ conn[q].body.payload.messages = JStr(<<"n", "o">>)
       /\ conn[r].state = "answered" /\ conn[r].responses[1].status = 200

\* C12: a call of ensure_local_model_server that begins when _SERVER_THREAD is
\* the thread of a listener an earlier call bound and started, and that
\* thread is alive, binds no socket, starts no thread and does not raise.
C12_LaterCallsAreNoOps ==
    \A t \in Threads :
       LET c == caller[t] IN
         (c.pc # "idle" /\ c.seen # 0 /\ servers[c.seen].state = "serving")
           => /\ c.binds = 0
              /\ c.starts = 0
              /\ c.server = 0
              /\ c.pc # "raised"
              /\ Cardinality({s \in ServerIds : servers[s].state = "serving"}) = 1

\* A later call has returned while the listener of an earlier call is alive.
C12_Witness ==
    \E t \in Threads :
       /\ caller[t].pc = "returned"
       /\ caller[t].seen # 0
       /\ servers[caller[t].seen].state = "serving"

\* C13: with threads calling the hook at overlapping times (nothing else
\* touches the port), at most one listener is ever created, no call raises,
\* and once a call has returned exactly one listener is serving.
C13_OneListenerUnderConcurrency ==
    /\ Cardinality({s \in ServerIds : servers[s].state # "none"}) <= 1
    /\ \A t \in Threads : caller[t].pc # "raised"
    /\ (\E t \in Threads : caller[t].pc = "returned")
         => Cardinality({s \in ServerIds : servers[s].state = "serving"}) = 1

AdvertisedKeys == {"OPENAI_API_BASE", "OPENAI_API_KEY"}

\* C14 as stated: a variable that is set is never changed, and after any call
\* of the hook (one that raised included) both variables are set.
C14_SetAfterAnyCall ==
    [][\A k \in AdvertisedKeys :
         /\ os_environ[k] # Unset => os_environ'[k] = os_environ[k]
         /\ \A t \in Threads :
              caller'[t].pc \in {"returned", "raised"} => os_environ'[k] # Unset]_vars

\* C14 amended: a variable that is set is never changed; a variable the hook
\* sets gets the hook's value (the module's _API_BASE, the placeholder
\* credential); after a call that returned both variables are set.
C14_FirstWriterWins ==
    [][\A k \in AdvertisedKeys :
         /\ os_environ[k] # Unset => os_environ'[k] = os_environ[k]
         /\ (os_environ[k] = Unset /\ os_environ'[k] # Unset) =>
               os_environ'[k] = (IF k = "OPENAI_API_BASE" THEN module._API_BASE
                                 ELSE <<"olama-local">>)
         /\ \A t \in Threads :
              caller'[t].pc = "returned" => os_environ'[k] # Unset]_vars

\* A call returned in an environment where the operator had set the base URL
\* and not the credential.
C14_Witness ==
    \E t \in Threads :
       /\ caller[t].pc = "returned"
       /\ os_environ["OPENAI_API_BASE"] = <<"https://api.example/v1">>
       /\ os_environ["OPENAI_API_KEY"] = <<"olama-local">>

\* C17: a request that has connected is answered unless its own backing
\* process hangs, whatever the other requests do; and a call of the hook
\* returns.
C17_IndependentWorkers ==
    /\ \A r \in Conns :
         (conn[r].state = "queued") ~> (conn[r].state = "answered" \/ Hung(conn[r]))
    /\ (caller["t1"].pc = "check") ~> (caller["t1"].pc = "returned")

\* A request accepted while the backing process of another was hanging has
\* been answered, and the hook has returned.
C17_Witness ==
    \E r, q \in Conns :
       /\ q \in conn[r].during
       /\ Hung(conn[q])
       /\ conn[r].state = "answered"
       /\ caller["t1"].pc = "returned"

\* C18: a call of the hook that fails (the only thread calling it) raised the
\* error whose message names the port and CODEX_LOCAL_SERVER_PORT, started no
\* thread, left no listener of its own bound, and did not set _SERVER_THREAD.
C18_BindFailureIsReported ==
    \A t \in Threads :
       LET c == caller[t] IN
         c.pc = "raised" =>
           /\ c.exc.type = "RuntimeError"
           /\ Contains(c.exc.message, ToString(module.PORT))
           /\ Contains(c.exc.message, "CODEX_LOCAL_SERVER_PORT")
           /\ c.starts = 0
           /\ c.server = 0
           /\ module._SERVER_THREAD = c.seen

\* C19: the base URL a returned call reports is http://HOST:PORT/v1 for the
\* address the listener is bound to, and so is OPENAI_API_BASE when the hook
\* set it.
C19_AdvertisedUrlIsListener ==
    \A t \in Threads :
       (caller[t].pc = "returned" /\ module._SERVER_THREAD # 0) =>
          LET addr == servers[module._SERVER_THREAD].address
              url == <<"http://">> \o addr[1] \o <<":", ToString(addr[2]), "/v1">>
          IN /\ caller[t].ret.base_url = url
             /\ os_environ["OPENAI_API_BASE"] # <<"https://api.example/v1">>
                  => os_environ["OPENAI_API_BASE"] = url

-----------------------------------------------------------------------------
(* Entrypoint resolution, manifest, insertion *)

\* C15: resolve_entrypoint returns __main__.py if it exists, otherwise the
\* first existing of cli.py, main.py, app.py, otherwise a file of the
\* directory (any file) whose text holds the main guard, and raises NotFound
\* exactly when there is none of these.
C15_ResolutionOrder ==
    last = "resolve_entrypoint" =>
      LET Has(n) == fs[File(n)].exists
          guarded == {n \in DirNames : Has(n) /\ Contains(fs[File(n)].data, MAINGUARD)}
      IN IF Has("__main__.py") THEN entrypoint = File("__main__.py") /\ exc = "none"
         ELSE IF Has("cli.py") THEN entrypoint = File("cli.py") /\ exc = "none"
         ELSE IF Has("main.py") THEN entrypoint = File("main.py") /\ exc = "none"
         ELSE IF Has("app.py") THEN entrypoint = File("app.py") /\ exc = "none"
         ELSE IF guarded # {} THEN entrypoint \in {File(n) : n \in guarded} /\ exc = "none"
         ELSE entrypoint = NoEntry /\ exc = "FileNotFoundError"

Without(t, i, n) == SubSeq(t, 1, i - 1) \o SubSeq(t, i + n, Len(t))

\* C20: a file inject_bootstrap has changed is the original text with the
\* block, the line break that ends it and the blank line after it inserted:
\* removing them gives the original text back, end of file included.
C20_PureInsertion ==
    \A p \in EntryPaths :
       fs[p].data # fs0[p].data =>
         LET t == fs[p].data
             block == injection(PackageName)
             n == Len(block)
         IN \E i \in 1..Len(t) :
              /\ i + n - 1 <= Len(t)
              /\ SubSeq(t, i, i + n - 1) = block
              /\ Without(t, i, IF i + n + 1 <= Len(t) THEN n + 2 ELSE Len(t) - i + 1)
                   = fs0[p].data

====
